---------------------------- MODULE Spec2Model ----------------------------
(***************************************************************************)
(* Model of static/js/main.js of the ODE Methods website:                   *)
(*   - the DOMContentLoaded handler that highlights the navigation link of  *)
(*     the current page, and                                                *)
(*   - the utility function formatEquation.                                 *)
(*                                                                          *)
(* JavaScript values are records [type, val].  An equation string is a      *)
(* sequence of one-character strings; a URL path or an inline style value   *)
(* is an atomic string (the code only ever compares them with ===).         *)
(* A call ends in a completion record: a return with its value, or a throw  *)
(* with the name of the error.                                              *)
(***************************************************************************)
EXTENDS Naturals, Sequences, FiniteSets

VARIABLES
    document,     \* the page's elements, in document order
    pathname,     \* window.location.pathname
    pc,           \* "registered" | "forEach" | "done" | "threw"
    currentPath,  \* the handler's const currentPath
    navLinks,     \* the handler's const navLinks: indices into document
    idx,          \* position of forEach in navLinks
    visits,       \* how many times the forEach callback ran on each element
    eq,           \* the argument a caller passes to formatEquation
    calls         \* the calls of formatEquation made so far, with their completions

vars == <<document, pathname, pc, currentPath, navLinks, idx, visits, eq, calls>>

----------------------------------------------------------------------------
(* Bounds of the model *)

MaxLinks == 2

MaxLen == 5

MaxCalls == 2

----------------------------------------------------------------------------
(* JavaScript values and completions *)

Str(s) == [type |-> "string", val |-> s]

Undefined == [type |-> "undefined", val |-> <<>>]

Null == [type |-> "null", val |-> <<>>]

Num(n) == [type |-> "number", val |-> <<n>>]

Return(v) == [kind |-> "return", value |-> v]

Throw(e) == [kind |-> "throw", value |-> e]

\* a === b for the values the handler compares: no conversion, no normalisation
StrictEquals(a, b) == a.type = b.type /\ (a.type = "string" => a.val = b.val)

----------------------------------------------------------------------------
(* formatEquation *)

StarStar == <<"*", "*">>

Star == <<"*">>

Caret == <<"^">>

Cdot_NoSpace == <<"\\", "c", "d", "o", "t">>

\* the JavaScript literal '\\cdot ': one backslash, c, d, o, t, one space
Cdot == <<"\\", "c", "d", "o", "t", " ">>

\* the literal pattern pat matches s at index i
MatchAt(s, pat, i) ==
    /\ i + Len(pat) - 1 <= Len(s)
    /\ \A k \in 1..Len(pat) : s[i + k - 1] = pat[k]

\* the regular expression's next match at or after lastIndex: its index, or 0
NextMatch(s, pat, from) ==
    LET hits == {i \in from..Len(s) : MatchAt(s, pat, i)}
    IN  IF hits = {} THEN 0 ELSE CHOOSE i \in hits : \A j \in hits : i <= j

RECURSIVE ReplaceFrom(_, _, _, _)
\* String.prototype.replace with a global pattern, from index from on: each
\* match is replaced and the search resumes after the match
ReplaceFrom(s, pat, rep, from) ==
    LET m == NextMatch(s, pat, from)
    IN  IF m = 0
        THEN SubSeq(s, from, Len(s))
        ELSE SubSeq(s, from, m - 1) \o rep \o ReplaceFrom(s, pat, rep, m + Len(pat))

\* replace without the g flag: only the first match is replaced
ReplaceFirst(s, pat, rep) ==
    LET m == NextMatch(s, pat, 1)
    IN  IF m = 0
        THEN s
        ELSE SubSeq(s, 1, m - 1) \o rep \o SubSeq(s, m + Len(pat), Len(s))

RECURSIVE ReplaceAll_NoTail(_, _, _)
\* a replace that loses the text after the last match
ReplaceAll_NoTail(s, pat, rep) ==
    LET m == NextMatch(s, pat, 1)
    IN  IF m = 0
        THEN <<>>
        ELSE SubSeq(s, 1, m - 1) \o rep
               \o ReplaceAll_NoTail(SubSeq(s, m + Len(pat), Len(s)), pat, rep)

\* s.replace(/pat/g, rep)
ReplaceAll(s, pat, rep) == ReplaceFrom(s, pat, rep, 1)

\* the first pattern without its g flag
formatEquationStr_FirstOnly(s) == ReplaceAll(ReplaceFirst(s, StarStar, Caret), Star, Cdot)

\* the two substitutions in the other order
formatEquationStr_Swapped(s) == ReplaceAll(ReplaceAll(s, Star, Cdot), StarStar, Caret)

\* eq.replace(/\*\*/g, '^').replace(/\*/g, '\\cdot ') on a string
formatEquationStr(s) == ReplaceAll(ReplaceAll(s, StarStar, Caret), Star, Cdot)

\* formatEquation(eq) for any argument: reading .replace of undefined or null
\* throws, and a number has no replace method to call
formatEquation(arg) ==
    IF arg.type = "string"
    THEN Return(Str(formatEquationStr(arg.val)))
    ELSE Throw("TypeError")

----------------------------------------------------------------------------
(* The DOMContentLoaded handler *)

\* document.querySelectorAll('.nav-menu a') keeps only the first match
QuerySelectorAll_First(doc) ==
    LET hits == {i \in DOMAIN doc : doc[i].tag = "a" /\ doc[i].inNavMenu}
    IN  IF hits = {} THEN <<>> ELSE <<CHOOSE i \in hits : \A j \in hits : i <= j>>

\* the selector '.nav-menu a': an a element below an element of class nav-menu
Selected(el) == el.tag = "a" /\ el.inNavMenu

RECURSIVE SelectFrom(_, _)
SelectFrom(doc, i) ==
    IF i > Len(doc) THEN <<>>
    ELSE (IF Selected(doc[i]) THEN <<i>> ELSE <<>>) \o SelectFrom(doc, i + 1)

\* document.querySelectorAll('.nav-menu a'): the selected elements in document
\* order, as a static list
QuerySelectorAll(doc) == SelectFrom(doc, 1)

\* link.getAttribute('href'): the attribute's text as written, or null
GetAttributeHref(link) == link.href

\* a test that calls a string method on the attribute: null has none
HrefTest_Method(link, path) ==
    IF GetAttributeHref(link).type = "string"
    THEN Return(StrictEquals(GetAttributeHref(link), path))
    ELSE Throw("TypeError")

\* link.getAttribute('href') === currentPath
HrefTest(link, path) == Return(StrictEquals(GetAttributeHref(link), path))

\* a callback that also resets the links of the other pages
Callback_Reset(link, path) ==
    LET test == HrefTest(link, path)
    IN  IF test.kind = "throw" THEN test
        ELSE IF test.value
             THEN Return([link EXCEPT !.opacity = "1", !.fontWeight = "bold"])
             ELSE Return([link EXCEPT !.opacity = "0.8", !.fontWeight = "normal"])

\* the forEach callback: link => { if (...) { opacity = '1'; fontWeight = 'bold' } }
Callback(link, path) ==
    LET test == HrefTest(link, path)
    IN  IF test.kind = "throw" THEN test
        ELSE IF test.value
             THEN Return([link EXCEPT !.opacity = "1", !.fontWeight = "bold"])
             ELSE Return(link)

\* the browser fires DOMContentLoaded: the handler logs, reads the pathname and
\* takes the list of navigation links
DOMContentLoaded ==
    /\ pc = "registered"
    /\ pc' = "forEach"
    /\ currentPath' = Str(pathname)
    /\ navLinks' = QuerySelectorAll(document)
    /\ idx' = 1
    /\ UNCHANGED <<document, pathname, visits, eq, calls>>

\* one iteration of navLinks.forEach
ForEachStep ==
    /\ pc = "forEach"
    /\ idx <= Len(navLinks)
    /\ LET i == navLinks[idx]
           c == Callback(document[i], currentPath)
       IN  /\ visits' = [visits EXCEPT ![i] = @ + 1]
           /\ IF c.kind = "throw"
              THEN pc' = "threw" /\ UNCHANGED <<document, idx>>
              ELSE /\ document' = [document EXCEPT ![i] = c.value]
                   /\ idx' = idx + 1
                   /\ pc' = pc
    /\ UNCHANGED <<pathname, currentPath, navLinks, eq, calls>>

\* a handler that stays armed and runs again
HandlerReturn_Rearm ==
    /\ pc = "forEach"
    /\ idx > Len(navLinks)
    /\ pc' = "registered"
    /\ UNCHANGED <<document, pathname, currentPath, navLinks, idx, visits, eq, calls>>

\* forEach is through and the handler returns
HandlerReturn ==
    /\ pc = "forEach"
    /\ idx > Len(navLinks)
    /\ pc' = "done"
    /\ UNCHANGED <<document, pathname, currentPath, navLinks, idx, visits, eq, calls>>

----------------------------------------------------------------------------
(* The environment: the page, the browser and the callers of formatEquation *)

\* the paths a link or the address bar may hold; the last two differ only by
\* the trailing slash
Paths == {"/", "/phase-portraits", "/phase-portraits/"}

\* what an element's href attribute may be: a path as written, or no attribute
Hrefs == {Str(p) : p \in Paths} \cup {Null}

\* inline styles a page may give an element before the script runs: none, or
\* the dimmed look of a link
InlineStyles ==
    {[opacity |-> "", fontWeight |-> ""], [opacity |-> "0.8", fontWeight |-> "normal"]}

Elements ==
    {[tag |-> t, inNavMenu |-> n, href |-> h,
      opacity |-> s.opacity, fontWeight |-> s.fontWeight] :
        t \in {"a", "span"}, n \in BOOLEAN, h \in Hrefs, s \in InlineStyles}

Documents == UNION {[1..n -> Elements] : n \in 0..MaxLinks}

Chars == {"*", "x", "^"}

Strings == UNION {[1..n -> Chars] : n \in 0..MaxLen}

\* the example of the documentation: x**2*y
Example == <<"x", "*", "*", "2", "*", "y">>

Arguments == {Str(s) : s \in Strings \cup {Example}} \cup {Undefined, Null, Num(0)}

\* the inputs explored: every page with a fixed argument, and every argument
\* on a fixed page
Init ==
    /\ \/ document \in Documents /\ pathname \in Paths /\ eq = Str(Example)
       \/ document = <<>> /\ pathname = "/" /\ eq \in Arguments
    /\ pc = "registered"
    /\ currentPath = Undefined
    /\ navLinks = <<>>
    /\ idx = 0
    /\ visits = [i \in DOMAIN document |-> 0]
    /\ calls = <<>>

\* the page changes its address without a reload (history.pushState); no other
\* script runs while the handler does
PushState ==
    /\ pc # "forEach"
    /\ \E p \in Paths : p # pathname /\ pathname' = p
    /\ UNCHANGED <<document, pc, currentPath, navLinks, idx, visits, eq, calls>>

\* a caller formats the equation
CallFormatEquation ==
    /\ pc # "forEach"
    /\ calls = <<>>
    /\ calls' = <<[arg |-> eq, completion |-> formatEquation(eq)]>>
    /\ UNCHANGED <<document, pathname, pc, currentPath, navLinks, idx, visits, eq>>

\* a caller formats again what formatEquation returned
Reformat ==
    /\ pc # "forEach"
    /\ Len(calls) \in 1..(MaxCalls - 1)
    /\ calls[Len(calls)].completion.kind = "return"
    /\ LET again == calls[Len(calls)].completion.value
       IN  calls' = Append(calls, [arg |-> again, completion |-> formatEquation(again)])
    /\ UNCHANGED <<document, pathname, pc, currentPath, navLinks, idx, visits, eq>>

Next ==
    \/ DOMContentLoaded
    \/ ForEachStep
    \/ HandlerReturn
    \/ PushState
    \/ CallFormatEquation
    \/ Reformat

Spec == Init /\ [][Next]_vars

----------------------------------------------------------------------------
(* Properties of the DOMContentLoaded handler *)

Highlighted(el) == el.opacity = "1" /\ el.fontWeight = "bold"

\* the element's href attribute is, character for character, the path p
HrefIs(el, p) == el.href.type = "string" /\ el.href.val = p

\* C1: while the handler runs, currentPath is window.location.pathname, and
\* once it has run, every link selected by '.nav-menu a' whose href attribute
\* equals that path exactly has opacity '1' and fontWeight 'bold': all of
\* them, not only the first.
C1_MatchingLinksHighlighted ==
    /\ pc = "forEach" => currentPath = Str(pathname)
    /\ pc = "done" =>
          \A i \in DOMAIN document :
             (Selected(document[i]) /\ HrefIs(document[i], currentPath.val))
                => Highlighted(document[i])

\* the handler has run on a page whose first two elements are navigation
\* links that both carry the current path, and both are highlighted
C1_Witness ==
    /\ pc = "done"
    /\ Len(document) >= 2
    /\ \A i \in 1..2 :
          /\ Selected(document[i])
          /\ HrefIs(document[i], currentPath.val)
          /\ Highlighted(document[i])

\* C2: no step changes an element that '.nav-menu a' does not select or whose
\* href attribute differs from window.location.pathname, and no step removes
\* or resets a style: an element keeps its tag, place and href, and each of
\* its two style properties keeps its value or becomes the highlight's.
C2_OthersUnaffected ==
    [][/\ DOMAIN document' = DOMAIN document
       /\ \A i \in DOMAIN document :
             LET old == document[i]
                 new == document'[i]
             IN  /\ (~Selected(old) \/ ~StrictEquals(old.href, Str(pathname)))
                        => new = old
                 /\ new.tag = old.tag
                 /\ new.inNavMenu = old.inNavMenu
                 /\ new.href = old.href
                 /\ new.opacity \in {old.opacity, "1"}
                 /\ new.fontWeight \in {old.fontWeight, "bold"}]_vars

\* the handler has run, it highlighted one link, and beside it an element
\* that carries another path, or that the selector does not select, still has
\* the dimmed look the page gave it
C2_Witness ==
    /\ pc = "done"
    /\ \E i, j \in DOMAIN document :
          /\ Selected(document[i])
          /\ HrefIs(document[i], currentPath.val)
          /\ Highlighted(document[i])
          /\ visits[i] = 1
          /\ ~Selected(document[j]) \/ ~HrefIs(document[j], currentPath.val)
          /\ document[j].opacity = "0.8"
          /\ document[j].fontWeight = "normal"

\* C9: no element is changed before DOMContentLoaded fires; once the handler
\* has started, its currentPath and navLinks never change (the pathname is
\* read once); the callback runs at most once on an element, and when the
\* handler has finished it has run exactly once on each selected link and on
\* no other element; after that no step changes the page again, whatever
\* window.location.pathname becomes.
C9_HighlightFixed ==
    /\ [][/\ pc = "registered" => document' = document
          /\ pc # "registered" => (currentPath' = currentPath /\ navLinks' = navLinks)
          /\ pc = "done" => (pc' = "done" /\ document' = document /\ visits' = visits)]_vars
    /\ [](\A i \in DOMAIN document :
             /\ visits[i] <= 1
             /\ pc = "done" => visits[i] = (IF Selected(document[i]) THEN 1 ELSE 0))

\* after the handler finished, the address changed to the path of another
\* navigation link: the highlight stayed on the link of the path read at
\* DOMContentLoaded, and the link of the new path is not highlighted
C9_Witness ==
    /\ pc = "done"
    /\ pathname # currentPath.val
    /\ \E i, j \in DOMAIN document :
          /\ Selected(document[i])
          /\ HrefIs(document[i], currentPath.val)
          /\ Highlighted(document[i])
          /\ Selected(document[j])
          /\ HrefIs(document[j], pathname)
          /\ ~Highlighted(document[j])

----------------------------------------------------------------------------
(* Properties of formatEquation *)

StringCalls == {k \in DOMAIN calls : calls[k].arg.type = "string"}

StarFree(s) == \A k \in DOMAIN s : s[k] # "*"

Drop(s, n) == SubSeq(s, n + 1, Len(s))

RECURSIVE SubstStarStar(_)
\* every leftmost, non-overlapping '**' of s replaced by '^', read left to right
SubstStarStar(s) ==
    IF s = <<>> THEN <<>>
    ELSE IF Len(s) >= 2 /\ s[1] = "*" /\ s[2] = "*"
         THEN <<"^">> \o SubstStarStar(Drop(s, 2))
         ELSE <<s[1]>> \o SubstStarStar(Tail(s))

RECURSIVE SubstStar(_)
\* every '*' of s replaced by backslash-cdot and one space
SubstStar(s) ==
    IF s = <<>> THEN <<>>
    ELSE (IF s[1] = "*" THEN <<"\\", "c", "d", "o", "t", " ">> ELSE <<s[1]>>)
            \o SubstStar(Tail(s))

\* C3: formatEquation of a string is that string with every '**' replaced by
\* '^' first and every '*' that remains replaced by backslash-cdot-space then.
C3_TwoSubstitutionsInOrder ==
    \A k \in StringCalls :
       calls[k].completion = Return(Str(SubstStar(SubstStarStar(calls[k].arg.val))))

\* formatEquation was called on **x* and returned ^x\cdot : one '**' and one
\* '*' that remained
C3_Witness ==
    /\ calls # <<>>
    /\ calls[1].arg = Str(<<"*", "*", "x", "*">>)
    /\ calls[1].completion = Return(Str(<<"^", "x", "\\", "c", "d", "o", "t", " ">>))

\* C4: on a string without '*' formatEquation returns the string itself, and
\* formatting what it returned returns the same again.
C4_IdentityWithoutStar ==
    \A k \in StringCalls :
       StarFree(calls[k].arg.val) =>
          /\ calls[k].completion = Return(calls[k].arg)
          /\ (k + 1) \in DOMAIN calls => calls[k + 1].completion = calls[k].completion

\* formatEquation was called on x^x and again on what it returned
C4_Witness ==
    /\ Len(calls) >= 2
    /\ calls[1].arg = Str(<<"x", "^", "x">>)
    /\ calls[2].arg = calls[1].completion.value
    /\ calls[2].completion = Return(Str(<<"x", "^", "x">>))

\* C5: formatEquation("x**2*y") returns x, ^, 2, one backslash, c, d, o, t,
\* one space, y.
C5_Example ==
    \A k \in DOMAIN calls :
       calls[k].arg = Str(Example) =>
          calls[k].completion
             = Return(Str(<<"x", "^", "2", "\\", "c", "d", "o", "t", " ", "y">>))

\* formatEquation was called on the example and returned ten characters
C5_Witness ==
    /\ calls # <<>>
    /\ calls[1].arg = Str(Example)
    /\ calls[1].completion.kind = "return"
    /\ Len(calls[1].completion.value.val) = 10

\* C7: what formatEquation returns for a string holds no '*', and formatting
\* it again returns the same.
C7_NoStarLeftIdempotent ==
    \A k \in StringCalls :
       /\ calls[k].completion.kind = "return"
       /\ StarFree(calls[k].completion.value.val)
       /\ (k + 1) \in DOMAIN calls => calls[k + 1].completion = calls[k].completion

\* formatEquation was called on *x**x, which holds both patterns, and again
\* on what it returned, with the same result
C7_Witness ==
    /\ Len(calls) >= 2
    /\ calls[1].arg = Str(<<"*", "x", "*", "*", "x">>)
    /\ calls[2].arg = calls[1].completion.value
    /\ calls[2].completion = calls[1].completion
    /\ calls[2].arg # calls[1].arg

\* the length of the run of '*' that s starts with
RECURSIVE RunLength(_)
RunLength(s) == IF s # <<>> /\ s[1] = "*" THEN 1 + RunLength(Tail(s)) ELSE 0

RECURSIVE Copies(_, _)
Copies(n, text) == IF n = 0 THEN <<>> ELSE text \o Copies(n - 1, text)

RECURSIVE RewriteRuns(_)
\* each maximal run of n '*' rewritten to n div 2 '^' and then n mod 2
\* backslash-cdot-space; every other character kept in place
RewriteRuns(s) ==
    IF s = <<>> THEN <<>>
    ELSE LET n == RunLength(s)
         IN  IF n = 0
             THEN <<s[1]>> \o RewriteRuns(Tail(s))
             ELSE Copies(n \div 2, <<"^">>)
                     \o Copies(n % 2, <<"\\", "c", "d", "o", "t", " ">>)
                     \o RewriteRuns(Drop(s, n))

\* C8: formatEquation rewrites each maximal run of n '*' to floor(n/2) '^'
\* followed by (n mod 2) backslash-cdot-space and keeps every other character
\* where it is.
C8_RunsRewritten ==
    \A k \in StringCalls :
       calls[k].completion = Return(Str(RewriteRuns(calls[k].arg.val)))

\* formatEquation was called on x***x and returned x^\cdot x: the '^' first
C8_Witness ==
    /\ calls # <<>>
    /\ calls[1].arg = Str(<<"x", "*", "*", "*", "x">>)
    /\ calls[1].completion
          = Return(Str(<<"x", "^", "\\", "c", "d", "o", "t", " ", "x">>))

----------------------------------------------------------------------------
(* Errors *)

\* C6 as stated: the handler never ends in an error and every call of
\* formatEquation, whatever its argument, returns a value.
C6_NoErrorForAnyArgument ==
    /\ pc # "threw"
    /\ \A k \in DOMAIN calls : calls[k].completion.kind = "return"

\* C6 as amended: the handler never ends in an error, whatever the links and
\* the pathname, and while it runs it can always take its next step;
\* formatEquation returns a string for every string argument and throws a
\* TypeError for undefined, null and a number.
C6_NoErrorForStrings ==
    /\ pc # "threw"
    /\ pc = "forEach" => ENABLED (ForEachStep \/ HandlerReturn)
    /\ \A k \in DOMAIN calls :
          IF calls[k].arg.type = "string"
          THEN /\ calls[k].completion.kind = "return"
               /\ calls[k].completion.value.type = "string"
          ELSE calls[k].completion = Throw("TypeError")

\* the handler has finished on a page with a navigation link that has no href
\* attribute, which the callback visited, and formatEquation has returned
C6_Witness ==
    /\ pc = "done"
    /\ \E i \in DOMAIN document :
          Selected(document[i]) /\ document[i].href = Null /\ visits[i] = 1
    /\ calls # <<>>
    /\ calls[1].completion.kind = "return"

============================================================================
